---- MODULE Spec2Model ----
(***************************************************************************)
(* Model of the Marlin post-mortem analyzer (src/src/index.ts).            *)
(*                                                                         *)
(* Encoding.  A register value / address is the set of its set bit         *)
(* positions (0 = least significant), so a 32-bit word is a subset of      *)
(* 0..31 and JavaScript's `a & b` is set intersection.  Console output is  *)
(* a sequence of strings.  An input line is a record holding what the two  *)
(* regular expressions of the program would capture from it, plus the      *)
(* flag `recv` for a leading "Recv: " marker.                              *)
(***************************************************************************)
EXTENDS Integers, Sequences, FiniteSets, TLC

VARIABLES
    elfExists,    \* fssync.existsSync(elfPath)
    faultFile,    \* faultPath given and existing (else the log is prompted for)
    faultText,    \* the raw lines of the fault log
    pc,           \* position of the async main() / its then/catch callbacks
    lines,        \* main: lines after stripping "Recv: "
    registers,    \* main: RegisterInfo[]
    out,          \* printRegisters: out
    btLines,      \* main: btLines
    i,            \* main: index of the backtrace loop (1-based)
    err,          \* the rejection reason of main()'s promise
    stdout,       \* console.log lines
    stderr,       \* console.error lines
    exitCode,     \* <<>> while running, <<code>> after process.exit(code)
    outstanding,  \* addr2line child processes started and not yet finished
    events,       \* history: what happened, in order
    tables        \* history: the row lists handed to printAsTable, in order

vars == <<elfExists, faultFile, faultText, pc, lines, registers, out, btLines, i,
          err, stdout, stderr, exitCode, outstanding, events, tables>>

\* ------------------------------------------------------------------ bounds
MaxLines == 3
MaxBits == 2
MaxRows == 2
MaxCols == 2

\* ------------------------------------------------------------- primitives
undefined == [undefined |-> TRUE]

Word == 0..31

\* JavaScript a & b on 32-bit operands
BitAnd(a, b) == (a \cap b) \cap Word

HexDigit == <<"0", "1", "2", "3", "4", "5", "6", "7",
              "8", "9", "a", "b", "c", "d", "e", "f">>

Pow2(b) == CASE b = 0 -> 1 [] b = 1 -> 2 [] b = 2 -> 4 [] OTHER -> 8

Nibble(v, k) ==
    LET bit(b) == IF (4 * k + b) \in v THEN Pow2(b) ELSE 0
    IN bit(0) + bit(1) + bit(2) + bit(3)

RECURSIVE HexFrom(_, _)
HexFrom(v, k) == IF k < 0 THEN "" ELSE HexDigit[Nibble(v, k) + 1] \o HexFrom(v, k - 1)

\* Number.prototype.toString(16)
toString16(v) ==
    IF v = {} THEN "0"
    ELSE LET top == CHOOSE b \in v : \A c \in v : c <= b
         IN HexFrom(v, top \div 4)

RECURSIVE padStart(_, _, _)
padStart(s, n, fill) == IF Len(s) >= n THEN s ELSE padStart(fill \o s, n, fill)

RECURSIVE padEnd(_, _, _)
padEnd(s, n, fill) == IF Len(s) >= n THEN s ELSE padEnd(s \o fill, n, fill)

DecDigit == <<"0", "1", "2", "3", "4", "5", "6", "7", "8", "9">>

\* `${n}` for a non-negative integer
RECURSIVE decimal(_)
decimal(n) == IF n < 10 THEN DecDigit[n + 1]
              ELSE decimal(n \div 10) \o DecDigit[(n % 10) + 1]

toUpperCase(s) ==
    CASE s = "lr" -> "LR"
      [] s = "pc" -> "PC"
      [] s = "cfsr" -> "CFSR"
      [] s = "Cfsr" -> "CFSR"
      [] s = "mmar" -> "MMAR"
      [] s = "bfar" -> "BFAR"
      [] s = "r0" -> "R0"
      [] OTHER -> s

numToHex(num) == "0x" \o padStart(toString16(num), 8, "0")

\* ------------------------------------------------------- ./cfsr (masks)
MEMFAULTSR_MASK == 0..7
BUSFAULTSR_MASK == 8..15
USAGEFAULTSR_MASK == 16..31

IACCVIOL_MASK == {0}
DACCVIOL_MASK == {1}
MUNSTKERR_MASK == {3}
MSTKERR_MASK == {4}
MLSPERR_MASK == {5}
MMARVALID_MASK == {7}

IBUSERR_MASK == {8}
PRECISERR_MASK == {9}
IMPRECISERR_MASK == {10}
UNSTKERR_MASK == {11}
STKERR_MASK == {12}
LSPERR_MASK == {13}
BFARVALID_MASK == {15}

UNDEFINSTR_MASK == {16}
INVSTATE_MASK == {17}
INVPC_MASK == {18}
NOCP_MASK == {19}
UNALIGNED_MASK == {24}
DIVBYZERO_MASK == {25}

\* ---------------------------------------------------------------- parsing
\* lines.map((line) => line.replace(/^recv: /i, ''))
stripRecv(line) == [line EXCEPT !.recv = FALSE]

\* /^([A-Za-z0-9]+)\s*:\s+0x([0-9A-Fa-f]+)$/ : anchored, so a line that still
\* carries a prefix does not match
parseRegisterLine(line) ==
    IF line.kind = "reg" /\ ~line.recv
    THEN [register |-> line.register, value |-> line.value]
    ELSE undefined

\* /#(\d+) : ([^@]+)@0x([0-9A-Fa-f]+)\+(\d+) PC:0x([0-9A-Fa-f]+)/ : not anchored
matchBacktrace(line) ==
    IF line.kind = "bt"
    THEN [position |-> line.position, name |-> line.name,
          fnAddress |-> line.fnAddress, fnOffset |-> line.fnOffset, pc |-> line.pc]
    ELSE undefined

\* addr2Line, after execAsync has resolved with `output`
addr2Line(output) ==
    IF output.fileLine = undefined
    THEN undefined
    ELSE LET filePath == output.fileLine.dir \o output.fileLine.base
             fileName == output.fileLine.base
         IN [filePath |-> filePath,
             fileName |-> IF fileName = "" THEN filePath ELSE fileName,
             line |-> output.fileLine.line,
             function |-> output.fn]

\* the row main pushes for a backtrace line that parseBacktraceLine returned
btRow(bt) ==
    << "#" \o decimal(bt.position),
       bt.function \o (IF bt.name = "unknown" THEN "" ELSE " (" \o bt.name \o ")"),
       "@ " \o numToHex(bt.fnAddress) \o " + " \o decimal(bt.fnOffset),
       "PC:" \o numToHex(bt.pc),
       bt.fileName \o ":" \o decimal(bt.line) >>

\* variant: an unresolved frame keeps its row, with blank symbol columns
pushBacktraceKeep(rows, m, a2l) ==
    Append(rows, btRow([position |-> m.position, name |-> m.name,
                        fnAddress |-> m.fnAddress, fnOffset |-> m.fnOffset,
                        pc |-> m.pc,
                        function |-> IF a2l = undefined THEN "" ELSE a2l.function,
                        fileName |-> IF a2l = undefined THEN "" ELSE a2l.fileName,
                        line |-> IF a2l = undefined THEN 0 ELSE a2l.line]))

\* parseBacktraceLine after addr2Line returned a2l, and main's `if (bt)`
pushBacktrace(rows, m, a2l) ==
    IF a2l = undefined
    THEN rows
    ELSE Append(rows, btRow([position |-> m.position, name |-> m.name,
                             fnAddress |-> m.fnAddress, fnOffset |-> m.fnOffset,
                             pc |-> m.pc, function |-> a2l.function,
                             fileName |-> a2l.fileName, line |-> a2l.line]))

parseRegisters(ls) ==
    LET F[k \in 0..Len(ls)] ==
            IF k = 0 THEN <<>>
            ELSE LET register == parseRegisterLine(ls[k])
                 IN IF register # undefined THEN Append(F[k - 1], register) ELSE F[k - 1]
    IN F[Len(ls)]

\* ---------------------------------------------------------- printRegisters
\* variant: the last match instead of the first
findRegisterLast(regs, reg) ==
    LET hits == {k \in 1..Len(regs) : toUpperCase(regs[k].register) = toUpperCase(reg)}
    IN IF hits = {} THEN undefined
       ELSE regs[CHOOSE k \in hits : \A h \in hits : k >= h]

findRegister(regs, reg) ==
    LET hits == {k \in 1..Len(regs) : toUpperCase(regs[k].register) = toUpperCase(reg)}
    IN IF hits = {} THEN undefined
       ELSE regs[CHOOSE k \in hits : \A h \in hits : k <= h]

registerHeader == <<"Register", "Value">>

\* variant: an unresolved register keeps its row, with blank symbol columns
pushRegisterBlank(o, name, reg, a2l) ==
    IF a2l = undefined
    THEN Append(o, <<name, numToHex(reg.value), "", "">>)
    ELSE Append(o, <<name, numToHex(reg.value), a2l.function,
                     a2l.fileName \o ":" \o decimal(a2l.line)>>)

\* the if (!a2l) ... else out.push(...) of the LR and PC blocks
pushRegister(o, name, reg, a2l) ==
    IF a2l = undefined
    THEN o
    ELSE Append(o, <<name, numToHex(reg.value), a2l.function,
                     a2l.fileName \o ":" \o decimal(a2l.line)>>)

logRegister(log, name, reg, a2l) ==
    IF a2l = undefined
    THEN Append(log, "Failed to lookup " \o name \o ": " \o toString16(reg.value))
    ELSE log

\* variant: the row is pushed without testing the flag
checkFlagNoTest(o, cfsr, flag, name, extraColumnsIfSet) ==
    Append(o, <<"", name>> \o extraColumnsIfSet)

checkFlag(o, cfsr, flag, name, extraColumnsIfSet) ==
    IF BitAnd(cfsr, flag) # {}
    THEN Append(o, <<"", name>> \o extraColumnsIfSet)
    ELSE o

\* variant: the detail cell is added whether or not the register was parsed
extraColumnAlways(label, reg) ==
    <<label \o ": " \o (IF reg # undefined THEN numToHex(reg.value) ELSE "undefined")>>

\* mmar ? [`MMAR: ${numToHex(mmar.value)}`] : []
extraColumn(label, reg) ==
    IF reg # undefined THEN <<label \o ": " \o numToHex(reg.value)>> ELSE <<>>

memoryManagementFault(o, cfsr, mmar) ==
    IF BitAnd(cfsr, MEMFAULTSR_MASK) # {}
    THEN LET o0 == Append(o, <<"", "Memory Management Fault">>)
             o1 == checkFlag(o0, cfsr, MMARVALID_MASK, "MMARVALID", extraColumn("MMAR", mmar))
             o2 == checkFlag(o1, cfsr, MLSPERR_MASK, "MLSPERR", <<>>)
             o3 == checkFlag(o2, cfsr, MSTKERR_MASK, "MSTKERR", <<>>)
             o4 == checkFlag(o3, cfsr, MUNSTKERR_MASK, "MUNSTKERR", <<>>)
             o5 == checkFlag(o4, cfsr, DACCVIOL_MASK, "DACCVIOL", <<>>)
         IN checkFlag(o5, cfsr, IACCVIOL_MASK, "IACCVIOL", <<>>)
    ELSE o

busFault(o, cfsr, bfar) ==
    IF BitAnd(cfsr, BUSFAULTSR_MASK) # {}
    THEN LET o0 == Append(o, <<"", "Bus Fault">>)
             o1 == checkFlag(o0, cfsr, BFARVALID_MASK, "BFARVALID", extraColumn("BFAR", bfar))
             o2 == checkFlag(o1, cfsr, LSPERR_MASK, "LSPERR", <<>>)
             o3 == checkFlag(o2, cfsr, STKERR_MASK, "STKERR", <<>>)
             o4 == checkFlag(o3, cfsr, UNSTKERR_MASK, "UNSTKERR", <<>>)
             o5 == checkFlag(o4, cfsr, IMPRECISERR_MASK, "IMPRECISERR", <<>>)
             o6 == checkFlag(o5, cfsr, PRECISERR_MASK, "PRECISERR", <<>>)
         IN checkFlag(o6, cfsr, IBUSERR_MASK, "IBUSERR", <<>>)
    ELSE o

usageFault(o, cfsr) ==
    IF BitAnd(cfsr, USAGEFAULTSR_MASK) # {}
    THEN LET o0 == Append(o, <<"", "Usage Fault">>)
             o1 == checkFlag(o0, cfsr, DIVBYZERO_MASK, "DIVBYZERO", <<>>)
             o2 == checkFlag(o1, cfsr, UNALIGNED_MASK, "UNALIGNED", <<>>)
             o3 == checkFlag(o2, cfsr, NOCP_MASK, "NOCP", <<>>)
             o4 == checkFlag(o3, cfsr, INVPC_MASK, "INVPC", <<>>)
             o5 == checkFlag(o4, cfsr, INVSTATE_MASK, "INVSTATE", <<>>)
         IN checkFlag(o5, cfsr, UNDEFINSTR_MASK, "UNDEFINSTR", <<>>)
    ELSE o

\* printRegisters from "get MMAR and BFAR registers" to the end of the CFSR block
decodeCfsr(o, regs) ==
    LET mmar == findRegister(regs, "MMAR")
        bfar == findRegister(regs, "BFAR")
        cfsrReg == findRegister(regs, "CFSR")
    IN IF cfsrReg # undefined
       THEN usageFault(busFault(memoryManagementFault(o, cfsrReg.value, mmar),
                                cfsrReg.value, bfar),
                       cfsrReg.value)
       ELSE o

\* ------------------------------------------------------------ printAsTable
\* variant: a column's width is the length of the last cell seen in it
RECURSIVE widthsOfLineLast(_, _, _)
widthsOfLineLast(columnWidths, line, k) ==
    IF k > Len(line) THEN columnWidths
    ELSE LET len == Len(line[k])
         IN widthsOfLineLast(IF k > Len(columnWidths) THEN Append(columnWidths, len)
                             ELSE [columnWidths EXCEPT ![k] = len],
                             line, k + 1)

RECURSIVE widthsOfLine(_, _, _)
widthsOfLine(columnWidths, line, k) ==
    IF k > Len(line) THEN columnWidths
    ELSE LET len == Len(line[k])
         IN widthsOfLine(IF k > Len(columnWidths) THEN Append(columnWidths, len)
                         ELSE IF len > columnWidths[k] THEN [columnWidths EXCEPT ![k] = len]
                         ELSE columnWidths,
                         line, k + 1)

columnWidthsOf(rows) ==
    LET F[k \in 0..Len(rows)] ==
            IF k = 0 THEN <<>> ELSE widthsOfLine(F[k - 1], rows[k], 1)
    IN F[Len(rows)]

padCell(entry, len) == padEnd(entry, len + 2, " ")

formatLine(line, columnWidths) ==
    LET F[k \in 0..Len(line)] ==
            IF k = 0 THEN "" ELSE F[k - 1] \o padCell(line[k], columnWidths[k])
    IN F[Len(line)]

\* the lines printAsTable writes with console.log
printAsTable(rows) ==
    LET columnWidths == columnWidthsOf(rows)
    IN [k \in 1..Len(rows) |-> formatLine(rows[k], columnWidths)]

\* ------------------------------------------------------------------ inputs
LR_A == [kind |-> "reg", recv |-> FALSE, register |-> "LR", value |-> {2, 4, 5, 9, 12, 27}]
LR_B == [kind |-> "reg", recv |-> TRUE, register |-> "lr", value |-> {0}]
PC_A == [kind |-> "reg", recv |-> FALSE, register |-> "PC", value |-> {3, 4, 5, 6, 9, 10, 12, 14, 27}]
CFSR_A == [kind |-> "reg", recv |-> FALSE, register |-> "CFSR", value |-> {1, 7}]
CFSR_B == [kind |-> "reg", recv |-> FALSE, register |-> "Cfsr", value |-> {9, 15, 25}]
MMAR_A == [kind |-> "reg", recv |-> FALSE, register |-> "MMAR", value |-> {29}]
BFAR_A == [kind |-> "reg", recv |-> TRUE, register |-> "bfar", value |-> {3, 4, 5, 8, 10, 11, 13, 14, 15, 29, 30, 31}]
BT_A == [kind |-> "bt", recv |-> FALSE, position |-> 0, name |-> "unknown",
         fnAddress |-> {2, 3, 7, 8, 9, 14, 15, 16}, fnOffset |-> 182,
         pc |-> {1, 6, 10, 14, 15, 16}]
BT_B == [kind |-> "bt", recv |-> TRUE, position |-> 1, name |-> "loop",
         fnAddress |-> {4, 13}, fnOffset |-> 6, pc |-> {1, 2, 4, 13}]
OTHER_A == [kind |-> "other", recv |-> FALSE]

FaultLines == {LR_A, LR_B, PC_A, CFSR_A, CFSR_B, MMAR_A, BT_A, BT_B, OTHER_A}

FaultTexts == UNION {[1..n -> FaultLines] : n \in 0..MaxLines}

\* what execAsync(cmd) can end with: the child failed (the promise rejects), or
\* it wrote stdout whose second line does or does not read <path>:<line>
ExecFailed == [failed |-> TRUE]
ExecOutputs ==
    { [failed |-> FALSE, fn |-> "", fileLine |-> undefined],
      [failed |-> FALSE, fn |-> "setup()",
       fileLine |-> [dir |-> "src/", base |-> "main.cpp", line |-> 339]] }
ExecResults == {ExecFailed} \cup ExecOutputs

\* ------------------------------------------------------------------- state
State == [pc |-> pc, lines |-> lines, registers |-> registers, out |-> out,
          btLines |-> btLines, i |-> i, err |-> err, stdout |-> stdout,
          stderr |-> stderr, exitCode |-> exitCode, outstanding |-> outstanding,
          events |-> events, tables |-> tables]

Becomes(s) ==
    /\ pc' = s.pc
    /\ lines' = s.lines
    /\ registers' = s.registers
    /\ out' = s.out
    /\ btLines' = s.btLines
    /\ i' = s.i
    /\ err' = s.err
    /\ stdout' = s.stdout
    /\ stderr' = s.stderr
    /\ exitCode' = s.exitCode
    /\ outstanding' = s.outstanding
    /\ events' = s.events
    /\ tables' = s.tables
    /\ UNCHANGED <<elfExists, faultFile, faultText>>

Init ==
    /\ elfExists \in BOOLEAN
    /\ faultFile \in BOOLEAN
    /\ faultText \in FaultTexts
    /\ pc = "main"
    /\ lines = <<>>
    /\ registers = <<>>
    /\ out = <<>>
    /\ btLines = <<>>
    /\ i = 0
    /\ err = ""
    /\ stdout = <<>>
    /\ stderr = <<>>
    /\ exitCode = <<>>
    /\ outstanding = 0
    /\ events = <<>>
    /\ tables = <<>>

\* const output = await execAsync(cmd): the child process is started
startLookup(s, who, at) ==
    [s EXCEPT !.outstanding = @ + 1,
              !.events = Append(@, <<"call", who, "">>),
              !.pc = at]

outcome(res) ==
    IF res.failed THEN "failed"
    ELSE IF addr2Line(res) = undefined THEN "unresolved" ELSE "resolved"

\* the child process has ended
endLookup(s, who, res) ==
    [s EXCEPT !.outstanding = @ - 1,
              !.events = Append(@, <<"return", who, outcome(res)>>)]

\* an exception leaves main(): its promise rejects
reject(s, reason) == [s EXCEPT !.err = reason, !.pc = "rejected"]

\* printRegisters from "get MMAR and BFAR registers" to printAsTable(out)
finishRegisters(s) ==
    LET o == decodeCfsr(s.out, s.registers)
    IN [s EXCEPT !.out = o,
                 !.stdout = @ \o printAsTable(o),
                 !.tables = Append(@, o),
                 !.events = Append(@, <<"table", "registers", "">>),
                 !.pc = "registers_printed"]

\* printRegisters from `if (pc)` on
lookupPC(s) ==
    IF findRegister(s.registers, "PC") # undefined
    THEN startLookup(s, "PC", "await_PC")
    ELSE finishRegisters(s)

\* printRegisters from its start to its first await (or to its end)
printRegisters(s) ==
    LET s0 == [s EXCEPT !.out = <<registerHeader>>]
    IN IF findRegister(s.registers, "LR") # undefined
       THEN startLookup(s0, "LR", "await_LR")
       ELSE lookupPC(s0)

\* variant: main() without the elf check
MainNoElfCheck ==
    /\ pc = "main"
    /\ Becomes([State EXCEPT !.stdout = IF faultFile THEN @
                                        ELSE Append(@, "Enter Fault Log:"),
                             !.pc = "reading"])

\* main() up to the elf check and the start of reading the fault log
Main ==
    /\ pc = "main"
    /\ Becomes(IF ~elfExists
               THEN reject(State, "Error: Elf file not found: ./firmware.elf")
               ELSE [State EXCEPT !.stdout = IF faultFile THEN @
                                             ELSE Append(@, "Enter Fault Log:"),
                                  !.pc = "reading"])

\* main() from the fault text to the first await of printRegisters
ParseRegisters ==
    /\ pc = "reading"
    /\ LET ls == [k \in 1..Len(faultText) |-> stripRecv(faultText[k])]
       IN Becomes(printRegisters([State EXCEPT !.lines = ls,
                                               !.registers = parseRegisters(ls),
                                               !.events = Append(@, <<"parsed", "registers", "">>)]))

\* printRegisters resumes after await addr2Line(lr.value)
ReturnLR ==
    /\ pc = "await_LR"
    /\ \E res \in ExecResults :
          LET s == endLookup(State, "LR", res)
              lr == findRegister(registers, "LR")
          IN Becomes(IF res.failed
                     THEN reject(s, "Error: Command failed")
                     ELSE LET a2l == addr2Line(res)
                          IN lookupPC([s EXCEPT !.out = pushRegister(@, "LR", lr, a2l),
                                                !.stderr = logRegister(@, "LR", lr, a2l)]))

\* printRegisters resumes after await addr2Line(pc.value)
ReturnPC ==
    /\ pc = "await_PC"
    /\ \E res \in ExecResults :
          LET s == endLookup(State, "PC", res)
              pcReg == findRegister(registers, "PC")
          IN Becomes(IF res.failed
                     THEN reject(s, "Error: Command failed")
                     ELSE LET a2l == addr2Line(res)
                          IN finishRegisters([s EXCEPT !.out = pushRegister(@, "PC", pcReg, a2l),
                                                       !.stderr = logRegister(@, "PC", pcReg, a2l)]))

backtraceHeader == <<"#", "Function", "Address", "PC", "File:Line">>

\* variant: the table starts with its header row
headerOnlyBtLines == << backtraceHeader >>

initialBtLines == << <<>>, <<"Backtrace">>, backtraceHeader >>

\* main() resumes after await printRegisters(registers)
StartBacktrace ==
    /\ pc = "registers_printed"
    /\ Becomes([State EXCEPT !.btLines = initialBtLines, !.i = 1, !.pc = "backtrace"])

\* variant: the loop starts each lookup and goes on without awaiting it
backtraceStepNoAwait(s) ==
    IF s.i > Len(s.lines)
    THEN [s EXCEPT !.stdout = @ \o printAsTable(s.btLines),
                   !.tables = Append(@, s.btLines),
                   !.events = Append(@, <<"table", "backtrace", "">>),
                   !.pc = "resolved"]
    ELSE IF matchBacktrace(s.lines[s.i]) = undefined
         THEN [s EXCEPT !.i = @ + 1]
         ELSE [startLookup(s, "BT", "backtrace") EXCEPT !.i = @ + 1]

\* one turn of `for (const line of lines)` up to its await, or the end of the loop
\* and printAsTable(btLines)
backtraceStep(s) ==
    IF s.i > Len(s.lines)
    THEN [s EXCEPT !.stdout = @ \o printAsTable(s.btLines),
                   !.tables = Append(@, s.btLines),
                   !.events = Append(@, <<"table", "backtrace", "">>),
                   !.pc = "resolved"]
    ELSE IF matchBacktrace(s.lines[s.i]) = undefined
         THEN [s EXCEPT !.i = @ + 1]
         ELSE startLookup(s, "BT", "await_BT")

BacktraceStep ==
    /\ pc = "backtrace"
    /\ Becomes(backtraceStep(State))

\* parseBacktraceLine resumes after await addr2Line(pc), then main's loop body
ReturnBT ==
    /\ pc = "await_BT"
    /\ \E res \in ExecResults :
          LET s == endLookup(State, "BT", res)
              m == matchBacktrace(lines[i])
          IN Becomes(IF res.failed
                     THEN reject(s, "Error: Command failed")
                     ELSE LET a2l == addr2Line(res)
                          IN [s EXCEPT !.btLines = pushBacktrace(@, m, a2l),
                                       !.stderr = IF a2l = undefined
                                                  THEN Append(@, "Failed to lookup address: "
                                                                 \o toString16(m.pc))
                                                  ELSE @,
                                       !.i = @ + 1,
                                       !.pc = "backtrace"])

\* main().then(...)
Then ==
    /\ pc = "resolved"
    /\ Becomes([State EXCEPT !.stdout = Append(@, "done"),
                             !.exitCode = <<0>>,
                             !.pc = "exited"])

\* main().catch(...)
Catch ==
    /\ pc = "rejected"
    /\ Becomes([State EXCEPT !.stderr = Append(@, err),
                             !.exitCode = <<1>>,
                             !.pc = "exited"])

Next ==
    \/ Main
    \/ ParseRegisters
    \/ ReturnLR
    \/ ReturnPC
    \/ StartBacktrace
    \/ BacktraceStep
    \/ ReturnBT
    \/ Then
    \/ Catch

Spec == Init /\ [][Next]_vars

\* ------------------------------------------- the CFSR decoder on its own
\* every word with at most n bits set
RECURSIVE WordsOf(_)
WordsOf(n) == IF n = 0 THEN {{}}
              ELSE LET less == WordsOf(n - 1)
                   IN less \cup {w \cup {b} : w \in less, b \in Word}

OptionalRegisters ==
    { <<>>, <<parseRegisterLine(MMAR_A)>>, <<parseRegisterLine(stripRecv(BFAR_A))>>,
      <<parseRegisterLine(MMAR_A), parseRegisterLine(stripRecv(BFAR_A))>> }

InitDecode ==
    /\ elfExists = TRUE
    /\ faultFile = TRUE
    /\ faultText = <<>>
    /\ pc = "decode"
    /\ lines = <<>>
    /\ \E v \in WordsOf(MaxBits), others \in OptionalRegisters :
          registers = <<[register |-> "CFSR", value |-> v]>> \o others
    /\ out = <<registerHeader>>
    /\ btLines = <<>>
    /\ i = 0
    /\ err = ""
    /\ stdout = <<>>
    /\ stderr = <<>>
    /\ exitCode = <<>>
    /\ outstanding = 0
    /\ events = <<>>
    /\ tables = <<>>

Decode ==
    /\ pc = "decode"
    /\ Becomes([State EXCEPT !.out = decodeCfsr(out, registers), !.pc = "decoded"])

NextDecode == Decode

SpecDecode == InitDecode /\ [][NextDecode]_vars

\* --------------------------------------------- printAsTable on its own
TableCells == {"", "a", "abcd"}

TableRows == UNION {[1..n -> TableCells] : n \in 0..MaxCols}

InitTable ==
    /\ elfExists = TRUE
    /\ faultFile = TRUE
    /\ faultText = <<>>
    /\ pc = "table"
    /\ lines = <<>>
    /\ registers = <<>>
    /\ out \in UNION {[1..n -> TableRows] : n \in 0..MaxRows}
    /\ btLines = <<>>
    /\ i = 0
    /\ err = ""
    /\ stdout = <<>>
    /\ stderr = <<>>
    /\ exitCode = <<>>
    /\ outstanding = 0
    /\ events = <<>>
    /\ tables = <<>>

PrintTable ==
    /\ pc = "table"
    /\ Becomes([State EXCEPT !.stdout = printAsTable(out),
                             !.tables = <<out>>,
                             !.pc = "printed"])

NextTable == PrintTable

SpecTable == InitTable /\ [][NextTable]_vars

\* ================================================================= claims
\* helpers the properties are written with: they read the raw input and the
\* history, not the program's own variables
Select(seq, Keep(_)) ==
    LET F[k \in 0..Len(seq)] ==
            IF k = 0 THEN <<>>
            ELSE IF Keep(seq[k]) THEN Append(F[k - 1], seq[k]) ELSE F[k - 1]
    IN F[Len(seq)]

IsRegisterLine(l) == l.kind = "reg"
IsBacktraceLine(l) == l.kind = "bt"
RegisterInput == Select(faultText, IsRegisterLine)
BacktraceInput == Select(faultText, IsBacktraceLine)
RegisterCount == Cardinality({k \in 1..Len(faultText) : IsRegisterLine(faultText[k])})
BacktraceCount == Cardinality({k \in 1..Len(faultText) : IsBacktraceLine(faultText[k])})

IsCall(e) == e[1] = "call"
IsReturn(e) == e[1] = "return"
IsBtReturn(e) == e[1] = "return" /\ e[2] = "BT"
BtReturns == Select(events, IsBtReturn)
CallCount == Cardinality({k \in 1..Len(events) : IsCall(events[k])})
ReturnCount == Cardinality({k \in 1..Len(events) : IsReturn(events[k])})
BtReturnCount == Cardinality({k \in 1..Len(events) : IsBtReturn(events[k])})

Returned(who, how) == \E k \in 1..Len(events) : events[k] = <<"return", who, how>>
Happened(e) == \E k \in 1..Len(events) : events[k] = e
IndexOf(e) == CHOOSE k \in 1..Len(events) : events[k] = e

RegistersTable == tables[1]
BacktraceTable == tables[2]
RowsNamed(rows, name) == {k \in 1..Len(rows) : Len(rows[k]) >= 1 /\ rows[k][1] = name}
RowsFlagged(rows, name) ==
    {k \in 1..Len(rows) : Len(rows[k]) >= 2 /\ rows[k][1] = "" /\ rows[k][2] = name}

\* the register lines of the input named `name` (compared without case), and
\* the first of them
Named(name) ==
    {k \in 1..Len(faultText) :
        IsRegisterLine(faultText[k]) /\ toUpperCase(faultText[k].register) = name}
FirstNamed(name) ==
    LET named == Named(name)
    IN faultText[CHOOSE k \in named : \A h \in named : k <= h]

\* C1: a failing Symbolizer lookup never aborts the run: whatever the lookups
\* end with, a run that found its ELF image renders both tables and exits 0.
C1_LookupFailureNeverAborts ==
    (pc = "exited" /\ elfExists) => (exitCode = <<0>> /\ Len(tables) = 2)

\* C3 as stated: an LR or PC register whose address the Symbolizer reports as
\* unresolved still has its row in the register table (name, hex value, blank
\* symbol columns), and a diagnostic is logged.
DiagnosticFor(who) == "Failed to lookup " \o who \o ": " \o toString16(FirstNamed(who).value)

ExpectedRow(l) ==
    << "#" \o decimal(l.position),
       "setup()" \o (IF l.name = "unknown" THEN "" ELSE " (" \o l.name \o ")"),
       "@ " \o numToHex(l.fnAddress) \o " + " \o decimal(l.fnOffset),
       "PC:" \o numToHex(l.pc),
       "main.cpp:339" >>

AddressDiagnostic(l) == "Failed to lookup address: " \o toString16(l.pc)

\* the rows (how = "resolved") or diagnostics (how = "unresolved") due for the
\* backtrace lines `input`, of which the first Len(returns) have been looked up
Expected(input, returns, how, Of(_)) ==
    LET F[k \in 0..Len(returns)] ==
            IF k = 0 THEN <<>>
            ELSE IF returns[k][3] = how
                 THEN Append(F[k - 1], Of(input[k]))
                 ELSE F[k - 1]
    IN F[Len(returns)]

IsAddressDiagnostic(msg) ==
    \E k \in 1..Len(faultText) :
        IsBacktraceLine(faultText[k]) /\ msg = AddressDiagnostic(faultText[k])

C4_BacktraceRows ==
    /\ BtReturnCount <= BacktraceCount
    /\ Len(btLines) >= 3 =>
          LET input == BacktraceInput
              returns == BtReturns
              rows == Expected(input, returns, "resolved", ExpectedRow)
          IN /\ SubSeq(btLines, 4, Len(btLines)) = rows
             /\ Select(stderr, IsAddressDiagnostic)
                   = Expected(input, returns, "unresolved", AddressDiagnostic)
             /\ Len(tables) = 2 =>
                   /\ Len(returns) = Len(input)
                   /\ BacktraceTable[3] = backtraceHeader
                   /\ SubSeq(BacktraceTable, 4, Len(BacktraceTable)) = rows
    /\ Len(tables) = 2 => Len(btLines) >= 3

C4_Witness ==
    /\ Len(tables) = 2
    /\ Len(BacktraceInput) = 3
    /\ BacktraceInput[1] # BacktraceInput[2]
    /\ BtReturns[1][3] = "resolved"
    /\ BtReturns[2][3] = "unresolved"
    /\ BtReturns[3][3] = "resolved"
    /\ BacktraceInput[3].position < BacktraceInput[1].position

\* C5: the pipeline is strictly sequential: all register lines are parsed before
\* any Symbolizer call; the register table is rendered after the LR/PC lookups
\* have completed and before the first backtrace lookup starts; the backtrace
\* table is rendered only after the lookup of the last backtrace line has
\* completed; at most one Symbolizer call is outstanding at any time.
ParsedEvent == <<"parsed", "registers", "">>
RegistersEvent == <<"table", "registers", "">>
BacktraceEvent == <<"table", "backtrace", "">>

C5_Sequential ==
    /\ outstanding \in {0, 1}
    /\ outstanding = CallCount - ReturnCount
    /\ CallCount > 0 => (events[1] = ParsedEvent /\ Len(registers) = RegisterCount)
    /\ \A k \in 1..(Len(events) - 1) :
          IsCall(events[k]) => (IsReturn(events[k + 1]) /\ events[k + 1][2] = events[k][2])
    /\ Happened(RegistersEvent) =>
          LET at == IndexOf(RegistersEvent)
          IN /\ \A k \in 1..Len(events) :
                   /\ events[k][2] \in {"LR", "PC"} => k < at
                   /\ events[k][2] = "BT" => k > at
             /\ \A who \in {"LR", "PC"} :
                   Named(who) # {} =>
                      \E k \in 1..at : IsReturn(events[k]) /\ events[k][2] = who
    /\ Happened(BacktraceEvent) =>
          /\ events[Len(events)] = BacktraceEvent
          /\ Happened(RegistersEvent)
          /\ BtReturnCount = BacktraceCount
          /\ outstanding = 0

C5_Witness ==
    /\ pc = "exited"
    /\ exitCode = <<0>>
    /\ Returned("LR", "resolved")
    /\ Returned("PC", "unresolved")
    /\ BtReturnCount = 1

\* C6: when the ELF image does not exist at the start of the run, the run is
\* fatal: no Symbolizer call is made, no table is rendered, the error is reported
\* exactly once and the process exits with a non-zero status.
ElfError == "Error: Elf file not found: ./firmware.elf"

C6_MissingElfIsFatal ==
    ~elfExists =>
        /\ CallCount = 0
        /\ outstanding = 0
        /\ tables = <<>>
        /\ stdout = <<>>
        /\ pc \in {"main", "rejected", "exited"}
        /\ pc = "exited" => (exitCode = <<1>> /\ stderr = <<ElfError>>)
        /\ pc # "exited" => (exitCode = <<>> /\ stderr = <<>> /\ ENABLED Next)

C6_Witness ==
    /\ ~elfExists
    /\ pc = "exited"
    /\ RegisterCount > 0
    /\ BacktraceCount > 0

\* C8: register lines with the same name (compared without case) are all kept,
\* in input order, and every lookup by name (LR, PC, CFSR, MMAR, BFAR) uses the
\* first of them: the report is built from the first occurrence's value.
FirstOccurrences ==
    LET names == <<"CFSR", "MMAR", "BFAR">>
        F[k \in 0..3] ==
            IF k = 0 THEN <<>>
            ELSE IF Named(names[k]) # {}
                 THEN Append(F[k - 1], [register |-> names[k],
                                        value |-> FirstNamed(names[k]).value])
                 ELSE F[k - 1]
    IN F[3]

IsFaultRow(row) == Len(row) >= 1 /\ row[1] = ""

C8_FirstOccurrenceWins ==
    /\ pc \notin {"main", "reading"} /\ elfExists =>
          LET input == RegisterInput
          IN registers = [k \in 1..Len(input) |->
                             [register |-> input[k].register, value |-> input[k].value]]
    /\ \A who \in {"LR", "PC"} :
          /\ RowsNamed(out, who) # {} =>
                LET hex == numToHex(FirstNamed(who).value)
                IN \A k \in RowsNamed(out, who) : out[k][2] = hex
          /\ Returned(who, "unresolved") =>
                LET diagnostic == DiagnosticFor(who)
                IN \E k \in 1..Len(stderr) : stderr[k] = diagnostic
          /\ Returned(who, "resolved") => RowsNamed(out, who) # {}
    /\ Len(tables) >= 1 =>
          Select(RegistersTable, IsFaultRow) = decodeCfsr(<<>>, FirstOccurrences)

C8_Witness ==
    /\ Len(tables) >= 1
    /\ Cardinality(Named("CFSR")) = 2
    /\ Cardinality({faultText[k].value : k \in Named("CFSR")}) = 2
    /\ Cardinality(Named("MMAR")) = 1
    /\ Len(RegistersTable) > 3

\* C10 as stated (for a run that found its ELF image): with no register line and
\* no backtrace line the run exits 0, makes no Symbolizer call, and each of the
\* two tables consists of its header row only.
NoData == RegisterCount = 0 /\ BacktraceCount = 0

C10_HeaderOnlyTables ==
    (NoData /\ elfExists /\ pc = "exited") =>
        /\ exitCode = <<0>>
        /\ CallCount = 0
        /\ tables = << << <<"Register", "Value">> >>,
                       << <<"#", "Function", "Address", "PC", "File:Line">> >> >>

\* C10 amended: with no register line and no backtrace line, a run that found
\* its ELF image exits 0 and makes no Symbolizer call; the register table is its
\* header row only; the backtrace table is an empty row, a one-cell "Backtrace"
\* caption row and the header row, with no frame rows.
C10_NoDataTables ==
    (NoData /\ elfExists) =>
        /\ CallCount = 0
        /\ pc # "rejected"
        /\ pc = "exited" =>
              /\ exitCode = <<0>>
              /\ tables = << << <<"Register", "Value">> >>,
                             << <<>>, <<"Backtrace">>,
                                <<"#", "Function", "Address", "PC", "File:Line">> >> >>

C10_Witness ==
    /\ NoData
    /\ Len(faultText) >= 2
    /\ pc = "exited"
    /\ exitCode = <<0>>

\* C2 (SpecDecode): for the CFSR value v, the table holds the header row of a
\* category iff v has a bit of that category's mask, and the sub-flag rows are
\* exactly the enumerated flags of the emitted categories whose bit is set in v:
\* none missing, none extra, each once, each after its category's header.  For
\* v = 0 there is no header and no flag row.
MemoryFlags == { <<"MMARVALID", MMARVALID_MASK>>, <<"MLSPERR", MLSPERR_MASK>>,
                 <<"MSTKERR", MSTKERR_MASK>>, <<"MUNSTKERR", MUNSTKERR_MASK>>,
                 <<"DACCVIOL", DACCVIOL_MASK>>, <<"IACCVIOL", IACCVIOL_MASK>> }
BusFlags == { <<"BFARVALID", BFARVALID_MASK>>, <<"LSPERR", LSPERR_MASK>>,
              <<"STKERR", STKERR_MASK>>, <<"UNSTKERR", UNSTKERR_MASK>>,
              <<"IMPRECISERR", IMPRECISERR_MASK>>, <<"PRECISERR", PRECISERR_MASK>>,
              <<"IBUSERR", IBUSERR_MASK>> }
UsageFlags == { <<"DIVBYZERO", DIVBYZERO_MASK>>, <<"UNALIGNED", UNALIGNED_MASK>>,
                <<"NOCP", NOCP_MASK>>, <<"INVPC", INVPC_MASK>>,
                <<"INVSTATE", INVSTATE_MASK>>, <<"UNDEFINSTR", UNDEFINSTR_MASK>> }
Categories == { <<"Memory Management Fault", MEMFAULTSR_MASK, MemoryFlags>>,
                <<"Bus Fault", BUSFAULTSR_MASK, BusFlags>>,
                <<"Usage Fault", USAGEFAULTSR_MASK, UsageFlags>> }

DecodedValue == registers[1].value
IsSet(v, mask) == (v \cap mask) # {}
SetFlags(v) == {f \in MemoryFlags \cup BusFlags \cup UsageFlags : IsSet(v, f[2])}
SetCategories(v) == {c \in Categories : IsSet(v, c[2])}

C2_CfsrDecoding ==
    pc = "decoded" =>
        /\ out[1] = registerHeader
        /\ \A c \in Categories :
              /\ Cardinality(RowsFlagged(out, c[1])) = (IF IsSet(DecodedValue, c[2]) THEN 1 ELSE 0)
              /\ \A f \in c[3] :
                    /\ Cardinality(RowsFlagged(out, f[1])) =
                          (IF IsSet(DecodedValue, f[2]) THEN 1 ELSE 0)
                    /\ \A k \in RowsFlagged(out, f[1]) :
                          \E h \in RowsFlagged(out, c[1]) : h < k
        /\ Len(out) = 1 + Cardinality(SetCategories(DecodedValue))
                        + Cardinality(SetFlags(DecodedValue))
        /\ DecodedValue = {} => out = <<registerHeader>>

C2_Witness ==
    /\ pc = "decoded"
    /\ DecodedValue = {6, 9}
    /\ Len(out) = 4

\* C9 (SpecDecode): the MMARVALID row carries the detail cell "MMAR: <hex>" iff
\* the MMARVALID flag is set and an MMAR register was parsed; with the flag set
\* and no MMAR register the row is there without the detail cell; with the flag
\* clear no row carries an MMAR detail.  The same for BFARVALID and BFAR.
Parsed(name) == {k \in 1..Len(registers) : toUpperCase(registers[k].register) = name}
Detail(name) == name \o ": " \o numToHex(registers[CHOOSE k \in Parsed(name) : TRUE].value)
RowsWithDetail(name) ==
    {k \in 1..Len(out) : \E c \in 1..Len(out[k]) :
        \/ Parsed(name) # {} /\ out[k][c] = Detail(name)
        \/ out[k][c] = name \o ": undefined"}

AddressDetail(flag, mask, name) ==
    /\ IsSet(DecodedValue, mask) =>
          \E k \in 1..Len(out) :
              /\ RowsFlagged(out, flag) = {k}
              /\ IF Parsed(name) # {}
                 THEN out[k] = <<"", flag, Detail(name)>>
                 ELSE out[k] = <<"", flag>>
              /\ RowsWithDetail(name) \subseteq {k}
    /\ ~IsSet(DecodedValue, mask) =>
          /\ RowsFlagged(out, flag) = {}
          /\ RowsWithDetail(name) = {}
    /\ \A k \in 1..Len(out) : Len(out[k]) > 2 => out[k][2] \in {"MMARVALID", "BFARVALID"}

C9_AddressDetail ==
    pc = "decoded" =>
        /\ AddressDetail("MMARVALID", MMARVALID_MASK, "MMAR")
        /\ AddressDetail("BFARVALID", BFARVALID_MASK, "BFAR")

C9_Witness ==
    /\ pc = "decoded"
    /\ DecodedValue = {7, 15}
    /\ Parsed("MMAR") # {}
    /\ Parsed("BFAR") = {}
    /\ Len(out) = 5

\* C7 (SpecTable): for any list of rows, the width of column c is the greatest
\* cell length among the rows that have a cell c; each line is its row's cells in
\* order, each followed by spaces up to that width plus two; a row puts nothing
\* out for a column it does not have; there is one line per row, in row order.
ColumnWidth(rows, c) ==
    LET lens == {Len(rows[r][c]) : r \in {q \in 1..Len(rows) : Len(rows[q]) >= c}}
    IN CHOOSE w \in lens : \A x \in lens : x <= w

RECURSIVE Spaces(_)
Spaces(n) == IF n = 0 THEN "" ELSE " " \o Spaces(n - 1)

RenderedRow(rows, r) ==
    LET F[c \in 0..Len(rows[r])] ==
            IF c = 0 THEN ""
            ELSE F[c - 1] \o rows[r][c]
                 \o Spaces(ColumnWidth(rows, c) + 2 - Len(rows[r][c]))
    IN F[Len(rows[r])]

LineLength(rows, r) ==
    LET F[c \in 0..Len(rows[r])] ==
            IF c = 0 THEN 0 ELSE F[c - 1] + ColumnWidth(rows, c) + 2
    IN F[Len(rows[r])]

C7_TableRendering ==
    pc = "printed" =>
        /\ Len(stdout) = Len(out)
        /\ \A r \in 1..Len(out) :
              /\ stdout[r] = RenderedRow(out, r)
              /\ Len(stdout[r]) = LineLength(out, r)

C7_Witness ==
    /\ pc = "printed"
    /\ out = << <<"abcd">>, <<"a", "">> >>
    /\ stdout = << "abcd  ", "a       " >>

====
